---- MODULE Spec2Model ----
(***************************************************************************)
(* Two-phase commit simulation: one coordinator thread, one thread per     *)
(* participant, one thread per client, an interrupt handler, and the mpsc  *)
(* channels between them.  Every action is one interaction with shared     *)
(* state (a channel send or receive, a load or store of the running flag,  *)
(* a fetch_add of the txid counter) followed by the thread-local code up   *)
(* to the next such interaction.                                           *)
(***************************************************************************)
EXTENDS Integers, Sequences, FiniteSets, TLC

\* ---------------------------------------------------------------- bounds
\* the runs checked: every choice of the options num_clients, num_participants
\* and num_requests (each at least 1) whose product is at most MaxLoad
MaxLoad == 2
\* probabilities and random draws are multiples of 1/Scale:
\* a probability is in 0..Scale (0.0 .. 1.0), a draw of random() in 0..Scale-1
Scale == 4

Shapes == {s \in (1 .. MaxLoad) \X (1 .. MaxLoad) \X (1 .. MaxLoad) :
             s[1] * s[2] * s[3] <= MaxLoad}
One == Scale
ProbLevels == {0, Scale \div 2, Scale}
Draws == 0 .. (Scale - 1)

VARIABLES
  num_clients,        \* opts.num_clients
  num_participants,   \* opts.num_participants
  num_requests,       \* opts.num_requests
  running,            \* Arc<AtomicBool> shared by every thread
  TXID_COUNTER,       \* static AtomicI32
  op_success_prob,    \* opts.success_probability_ops
  msg_success_prob,   \* opts.success_probability_msg
  coord,              \* the Coordinator struct and the position of its thread
  part,               \* the Participant structs and the positions of their threads
  client,             \* the Client structs and the positions of their threads
  c2k,                \* client_join: channel (client_tx, coord_rx)
  k2c,                \* client_join: channel (coord_tx, client_rx)
  p2k,                \* participant_join: channel (p_tx, coord_rx)
  k2p,                \* participant_join: channel (coord_tx, p_rx)
  interrupted,        \* history: the CTRL-C handler has run
  readVotes,          \* history: <<txid of the round, participant, message read>>
  voteWaitFailed      \* history: some recv_timeout of a vote wait returned Err

opts == <<num_clients, num_participants, num_requests, op_success_prob,
          msg_success_prob>>

vars == <<opts, running, TXID_COUNTER, coord, part,
          client, c2k, k2c, p2k, k2p, interrupted, readVotes, voteWaitFailed>>

\* register_clients, register_participants: the names the actors join under
Clients == 0 .. (num_clients - 1)
Participants == 0 .. (num_participants - 1)

\* ---------------------------------------------------------------- messages
ProtocolMessage(mtype, txid, senderid, opid) ==
  [mtype |-> mtype, txid |-> txid, senderid |-> senderid, opid |-> opid]

NoMsg == ProtocolMessage("None", 0, <<"none", 0>>, 0)
CoordinatorId == <<"coordinator", 0>>
ClientId(c) == <<"Client", c>>
ParticipantId(p) == <<"participant", p>>

\* oplog::OpLog::append
LogAppend(log, m) == Append(log, m)

\* ---------------------------------------------------------------- channels
\* A channel keeps everything ever sent on it and the number of messages the
\* receiver has taken, so the queue is the part of sent after the first read.
EmptyChannel == [sent |-> <<>>, read |-> 0]
Pending(ch) == ch.read < Len(ch.sent)
Front(ch) == ch.sent[ch.read + 1]
Take(ch) == [ch EXCEPT !.read = @ + 1]
Put(ch, m) == [ch EXCEPT !.sent = Append(@, m)]

\* the threads' structs own the endpoints: they are dropped when the thread ends
CoordAlive == coord.pc # "done"
PartAlive(p) == part[p].pc # "done"
ClientAlive(c) == client[c].pc # "done"

\* ---------------------------------------------------------------- Init
Init ==
  /\ \E s \in Shapes :
       /\ num_clients = s[1]
       /\ num_participants = s[2]
       /\ num_requests = s[3]
  /\ running = TRUE
  /\ TXID_COUNTER = 1
  /\ op_success_prob \in ProbLevels
  /\ msg_success_prob \in ProbLevels
  /\ coord = [pc |-> "loop", idx |-> 0, log |-> <<>>, state |-> "Quiescent",
              all_voted |-> TRUE, num_req_handled |-> 0,
              total_req |-> num_requests * num_clients,
              successful |-> 0, failed |-> 0, unknown |-> 0,
              pm |-> NoMsg, key |-> 0]
  /\ part = [p \in Participants |->
              [pc |-> "loop", log |-> <<>>, vote |-> NoMsg,
               successful |-> 0, failed |-> 0, unknown |-> 0, panicked |-> FALSE]]
  /\ client = [c \in Clients |->
              [pc |-> "loop", i |-> 0, opid |-> 0, pm |-> NoMsg,
               successful |-> 0, failed |-> 0, unknown |-> 0, panicked |-> FALSE]]
  /\ c2k = [c \in Clients |-> EmptyChannel]
  /\ k2c = [c \in Clients |-> EmptyChannel]
  /\ p2k = [p \in Participants |-> EmptyChannel]
  /\ k2p = [p \in Participants |-> EmptyChannel]
  /\ interrupted = FALSE
  /\ readVotes = {}
  /\ voteWaitFailed = FALSE

\* ---------------------------------------------------------------- interrupt
\* ctrlc handler: r.store(false)
Interrupt ==
  /\ running
  /\ running' = FALSE
  /\ interrupted' = TRUE
  /\ UNCHANGED <<TXID_COUNTER, opts, coord, part,
                 client, c2k, k2c, p2k, k2p, readVotes, voteWaitFailed>>

\* ---------------------------------------------------------------- client
\* faulty variant: the txid is taken from the client's own opid, not from the
\* shared counter
ClientIterOwnCounter(s, c, flag, txid) ==
  IF s.i < num_requests /\ flag
    THEN [s EXCEPT !.pc = "send", !.opid = @ + 1,
                   !.pm = ProtocolMessage("ClientRequest", s.opid + 1, ClientId(c), s.opid)]
    ELSE [s EXCEPT !.pc = "wait"]

\* Client::protocol: the for loop's test, the load of running, and
\* send_next_operation up to the message being built (opid, TXID_COUNTER.fetch_add)
ClientIter(s, c, flag, txid) ==
  IF s.i < num_requests /\ flag
    THEN [s EXCEPT !.pc = "send", !.opid = @ + 1,
                   !.pm = ProtocolMessage("ClientRequest", txid, ClientId(c), s.opid)]
    ELSE [s EXCEPT !.pc = "wait"]

ClientLoop(c) ==
  /\ client[c].pc = "loop"
  /\ client' = [client EXCEPT ![c] = ClientIter(@, c, running, TXID_COUNTER)]
  /\ TXID_COUNTER' = IF client'[c].pc = "send" THEN TXID_COUNTER + 1 ELSE TXID_COUNTER
  /\ UNCHANGED <<running, opts, coord, part,
                 c2k, k2c, p2k, k2p, interrupted, readVotes, voteWaitFailed>>

\* faulty variant: the client goes on to its next request without waiting for
\* the result
ClientSendNoWait(c) ==
  /\ client[c].pc = "send"
  /\ CoordAlive
  /\ c2k' = [c2k EXCEPT ![c] = Put(@, client[c].pm)]
  /\ client' = [client EXCEPT ![c].pc = "loop", ![c].i = @ + 1]
  /\ UNCHANGED <<running, TXID_COUNTER, opts, coord,
                 part, k2c, p2k, k2p, interrupted, readVotes, voteWaitFailed>>

\* Client::send_next_operation: self.ports.0.send(pm), an Err panics the thread
ClientSend(c) ==
  /\ client[c].pc = "send"
  /\ IF CoordAlive
       THEN /\ c2k' = [c2k EXCEPT ![c] = Put(@, client[c].pm)]
            /\ client' = [client EXCEPT ![c].pc = "recv"]
       ELSE /\ c2k' = c2k
            /\ client' = [client EXCEPT ![c].pc = "done", ![c].panicked = TRUE]
  /\ UNCHANGED <<running, TXID_COUNTER, opts, coord,
                 part, k2c, p2k, k2p, interrupted, readVotes, voteWaitFailed>>

\* faulty variant: a committed result is counted as successful and as failed
ClassifyTwice(s, result) ==
  IF result.mtype = "ClientResultCommit"
    THEN [s EXCEPT !.successful = @ + 1, !.failed = @ + 1]
  ELSE IF result.mtype = "ClientResultAbort" THEN [s EXCEPT !.failed = @ + 1]
  ELSE IF result.mtype = "CoordinatorExit" THEN s
  ELSE [s EXCEPT !.unknown = @ + 1]

\* Client::recv_result: the match on the message received
Classify(s, result) ==
  IF result.mtype = "ClientResultCommit" THEN [s EXCEPT !.successful = @ + 1]
  ELSE IF result.mtype = "ClientResultAbort" THEN [s EXCEPT !.failed = @ + 1]
  ELSE IF result.mtype = "CoordinatorExit" THEN s
  ELSE [s EXCEPT !.unknown = @ + 1]

\* Client::recv_result: a blocking recv(), Err(_) when the coordinator is gone;
\* then the next iteration of the loop of protocol begins
ClientRecvResult(c) ==
  /\ client[c].pc = "recv"
  /\ IF Pending(k2c[c])
       THEN LET result == Front(k2c[c]) IN
            /\ k2c' = [k2c EXCEPT ![c] = Take(@)]
            /\ running' = IF result.mtype = "CoordinatorExit" THEN FALSE ELSE running
            /\ client' = [client EXCEPT ![c] =
                 ClientIter([Classify(@, result) EXCEPT !.i = @ + 1], c, running',
                            TXID_COUNTER)]
       ELSE /\ ~CoordAlive
            /\ k2c' = k2c
            /\ running' = running
            /\ client' = [client EXCEPT ![c] =
                 ClientIter([@ EXCEPT !.i = @ + 1], c, running, TXID_COUNTER)]
  /\ TXID_COUNTER' = IF client'[c].pc = "send" THEN TXID_COUNTER + 1 ELSE TXID_COUNTER
  /\ UNCHANGED <<opts, coord, part,
                 c2k, p2k, k2p, interrupted, readVotes, voteWaitFailed>>

\* Client::wait_for_exit_signal, report_status, and the end of the thread
ClientWaitExit(c) ==
  /\ client[c].pc = "wait"
  /\ ~running
  /\ client' = [client EXCEPT ![c].pc = "done"]
  /\ UNCHANGED <<running, TXID_COUNTER, opts, coord,
                 part, c2k, k2c, p2k, k2p, interrupted, readVotes, voteWaitFailed>>

\* ---------------------------------------------------------------- participant
\* Participant::protocol: the load of running at the top of the loop
PartTop(flag) == IF flag THEN "recv" ELSE "wait"

PartLoop(p) ==
  /\ part[p].pc = "loop"
  /\ part' = [part EXCEPT ![p].pc = PartTop(running)]
  /\ UNCHANGED <<running, TXID_COUNTER, opts, coord,
                 client, c2k, k2c, p2k, k2p, interrupted, readVotes, voteWaitFailed>>

\* perform_operation: the branch taken for the draw x
OpFails(x) == x > op_success_prob

\* the vote perform_operation casts on a propose pm when its draw is x
VoteFor(p, pm, x) ==
  IF OpFails(x)
    THEN ProtocolMessage("ParticipantVoteAbort", pm.txid, ParticipantId(p), pm.opid)
    ELSE ProtocolMessage("ParticipantVoteCommit", pm.txid, ParticipantId(p), pm.opid)

\* faulty variant: the vote is not logged before it is sent
LogVoteUnlogged(s, pm, vote) ==
  [s EXCEPT !.pc = "send_vote", !.vote = vote, !.log = LogAppend(@, pm)]

\* faulty variant: the propose is logged twice
LogVoteTwice(s, pm, vote) ==
  [s EXCEPT !.pc = "send_vote", !.vote = vote,
            !.log = LogAppend(LogAppend(LogAppend(@, pm), pm), vote)]

\* perform_operation on a propose: the propose and the vote are logged
LogVote(s, pm, vote) ==
  [s EXCEPT !.pc = "send_vote", !.vote = vote,
            !.log = LogAppend(LogAppend(@, pm), vote)]

\* perform_operation on a message that is no propose: is running cleared?
ClearsRunning(pm, x) == pm.mtype = "CoordinatorExit" /\ ~OpFails(x)

\* Participant::protocol recv() and perform_operation, up to the send of the
\* vote for a propose, up to the next top of the loop for another message
PartRecv(p) ==
  /\ part[p].pc = "recv"
  /\ IF Pending(k2p[p])
       THEN LET pm == Front(k2p[p]) IN
            /\ k2p' = [k2p EXCEPT ![p] = Take(@)]
            /\ \E x \in Draws :
                 IF pm.mtype = "CoordinatorPropose"
                   THEN /\ part' = [part EXCEPT ![p] = LogVote(@, pm, VoteFor(p, pm, x))]
                        /\ running' = running
                   ELSE /\ running' = IF ClearsRunning(pm, x) THEN FALSE ELSE running
                        /\ part' = [part EXCEPT ![p].pc = PartTop(running')]
       ELSE /\ ~CoordAlive
            /\ k2p' = k2p
            /\ part' = [part EXCEPT ![p].pc = "wait"]
            /\ running' = running
  /\ UNCHANGED <<TXID_COUNTER, opts, coord, client,
                 c2k, k2c, p2k, interrupted, readVotes, voteWaitFailed>>

\* Participant::send and Participant::send_unreliable: is pm put on the channel?
PartSendDelivers(x) ==
  /\ (msg_success_prob = One \/ x < msg_success_prob)
  /\ CoordAlive

\* perform_operation: the vote is sent once, the result of the send is not used
PartSendVote(p) ==
  /\ part[p].pc = "send_vote"
  /\ \E x \in Draws :
       p2k' = [p2k EXCEPT ![p] = IF PartSendDelivers(x) THEN Put(@, part[p].vote) ELSE @]
  /\ part' = [part EXCEPT ![p].pc = "wait_decision"]
  /\ UNCHANGED <<running, TXID_COUNTER, opts, coord,
                 client, c2k, k2c, k2p, interrupted, readVotes, voteWaitFailed>>

\* faulty variant: the participant logs the decision it voted for, not the reply's
AfterReplyOwnVote(s, reply) ==
  IF s.vote.mtype = "ParticipantVoteAbort"
    THEN [s EXCEPT !.log = LogAppend(@, [reply EXCEPT !.mtype = "CoordinatorAbort"]),
                   !.failed = @ + 1]
    ELSE [s EXCEPT !.log = LogAppend(@, [reply EXCEPT !.mtype = "CoordinatorCommit"]),
                   !.successful = @ + 1]

\* perform_operation: the match on the reply, in the branch of the vote cast
AfterReply(s, reply) ==
  IF s.vote.mtype = "ParticipantVoteAbort"
    THEN IF reply.mtype = "CoordinatorAbort"
           THEN [s EXCEPT !.log = LogAppend(@, reply), !.failed = @ + 1]
           ELSE [s EXCEPT !.unknown = @ + 1]
    ELSE IF reply.mtype = "CoordinatorCommit"
           THEN [s EXCEPT !.log = LogAppend(@, reply), !.successful = @ + 1]
           ELSE IF reply.mtype = "CoordinatorAbort"
             THEN [s EXCEPT !.log = LogAppend(@, reply), !.failed = @ + 1]
             ELSE [s EXCEPT !.unknown = @ + 1]

\* perform_operation: self.ports.1.recv().unwrap() and the match on the reply,
\* then the top of the loop of protocol; the unwrap panics when the
\* coordinator is gone
PartRecvDecision(p) ==
  /\ part[p].pc = "wait_decision"
  /\ IF Pending(k2p[p])
       THEN /\ k2p' = [k2p EXCEPT ![p] = Take(@)]
            /\ part' = [part EXCEPT ![p] =
                 [AfterReply(@, Front(k2p[p])) EXCEPT !.pc = PartTop(running),
                                                      !.vote = NoMsg]]
       ELSE /\ ~CoordAlive
            /\ k2p' = k2p
            /\ part' = [part EXCEPT ![p].pc = "done", ![p].panicked = TRUE]
  /\ UNCHANGED <<running, TXID_COUNTER, opts, coord,
                 client, c2k, k2c, p2k, interrupted, readVotes, voteWaitFailed>>

\* Participant::wait_for_exit_signal, report_status, and the end of the thread
PartWaitExit(p) ==
  /\ part[p].pc = "wait"
  /\ ~running
  /\ part' = [part EXCEPT ![p].pc = "done"]
  /\ UNCHANGED <<running, TXID_COUNTER, opts, coord,
                 client, c2k, k2c, p2k, k2p, interrupted, readVotes, voteWaitFailed>>

\* ---------------------------------------------------------------- coordinator
\* Coordinator::send: "ok" (sent), "dropped" (not sent) or "panic" (peer gone)
CoordSend(x, peerAlive) ==
  IF x < msg_success_prob
    THEN IF peerAlive THEN "ok" ELSE "panic"
    ELSE "dropped"

Exit == ProtocolMessage("CoordinatorExit", -1, CoordinatorId, -1)

\* faulty variant: the propose carries the number of the round, not the request's opid
PrepareOwnOpid(pm) ==
  ProtocolMessage("CoordinatorPropose", pm.txid, CoordinatorId, coord.num_req_handled + 1)

\* the propose the coordinator builds for the request pm
Prepare(pm) == ProtocolMessage("CoordinatorPropose", pm.txid, CoordinatorId, pm.opid)

\* the decision message of the round
Decision(all_voted, pm) ==
  IF all_voted
    THEN ProtocolMessage("CoordinatorCommit", pm.txid, CoordinatorId, pm.opid)
    ELSE ProtocolMessage("CoordinatorAbort", pm.txid, CoordinatorId, pm.opid)

\* faulty variant: the client is always told the transaction committed
ClientResultAlwaysCommit(all_voted, pm) ==
  ProtocolMessage("ClientResultCommit", pm.txid, CoordinatorId, pm.opid)

\* the result message for the client
ClientResult(all_voted, pm) ==
  IF all_voted
    THEN ProtocolMessage("ClientResultCommit", pm.txid, CoordinatorId, pm.opid)
    ELSE ProtocolMessage("ClientResultAbort", pm.txid, CoordinatorId, pm.opid)

\* Coordinator::protocol: the while test and the load of running
CoordLoop ==
  /\ coord.pc = "loop"
  /\ coord' = [coord EXCEPT !.pc =
        IF coord.num_req_handled # coord.total_req /\ running THEN "recv_request"
        ELSE "final"]
  /\ UNCHANGED <<running, TXID_COUNTER, opts, part,
                 client, c2k, k2c, p2k, k2p, interrupted, readVotes, voteWaitFailed>>

\* Coordinator::recv_request finds nothing: every poll of every client timed out
CoordRecvNone ==
  /\ coord.pc = "recv_request"
  /\ \A c \in Clients : ~Pending(c2k[c])
  /\ coord' = [coord EXCEPT !.pc = "loop"]
  /\ UNCHANGED <<running, TXID_COUNTER, opts, part,
                 client, c2k, k2c, p2k, k2p, interrupted, readVotes, voteWaitFailed>>

\* faulty variant: the request is remembered under another client's key
CoordRecvRequestWrongKey(key) ==
  /\ coord.pc = "recv_request"
  /\ Pending(c2k[key])
  /\ c2k' = [c2k EXCEPT ![key] = Take(@)]
  /\ LET pm == Front(c2k[key]) IN
       coord' = [coord EXCEPT
          !.pc = "send_propose", !.idx = 0, !.pm = pm,
          !.key = (key + 1) % num_clients,
          !.log = LogAppend(LogAppend(@, pm), Prepare(pm))]
  /\ UNCHANGED <<running, TXID_COUNTER, opts, part,
                 client, k2c, p2k, k2p, interrupted, readVotes, voteWaitFailed>>

\* Coordinator::recv_request returns the request of client key; protocol logs
\* the request and the propose
CoordRecvRequest(key) ==
  /\ coord.pc = "recv_request"
  /\ Pending(c2k[key])
  /\ c2k' = [c2k EXCEPT ![key] = Take(@)]
  /\ LET pm == Front(c2k[key]) IN
       coord' = [coord EXCEPT
          !.pc = "send_propose", !.idx = 0, !.pm = pm, !.key = key,
          !.log = LogAppend(LogAppend(@, pm), Prepare(pm))]
  /\ UNCHANGED <<running, TXID_COUNTER, opts, part,
                 client, k2c, p2k, k2p, interrupted, readVotes, voteWaitFailed>>

\* faulty variant: the decision is logged but its broadcast is skipped
AfterLoopNoBroadcast(k) ==
  IF k.idx < num_participants THEN k
  ELSE IF k.pc = "send_propose" THEN [k EXCEPT !.pc = "collect", !.idx = 0]
  ELSE IF k.pc = "collect" THEN
    [k EXCEPT !.pc = "send_result",
              !.successful = IF k.all_voted THEN @ + 1 ELSE @,
              !.failed = IF k.all_voted THEN @ ELSE @ + 1,
              !.log = LogAppend(LogAppend(@, Decision(k.all_voted, k.pm)),
                                ClientResult(k.all_voted, k.pm))]
  ELSE [k EXCEPT !.pc = "exit_clients", !.idx = 0]

\* faulty variant: successful is incremented for an abort as well
AfterLoopCountsAll(k) ==
  IF k.idx < num_participants THEN k
  ELSE IF k.pc = "send_propose" THEN [k EXCEPT !.pc = "collect", !.idx = 0]
  ELSE IF k.pc = "collect" THEN
    [k EXCEPT !.pc = "send_decision", !.idx = 0,
              !.successful = @ + 1,
              !.failed = IF k.all_voted THEN @ ELSE @ + 1,
              !.log = LogAppend(@, Decision(k.all_voted, k.pm))]
  ELSE IF k.pc = "send_decision" THEN
    [k EXCEPT !.pc = "send_result",
              !.log = LogAppend(@, ClientResult(k.all_voted, k.pm))]
  ELSE [k EXCEPT !.pc = "exit_clients", !.idx = 0]

\* faulty variant: an aborted round is counted as unknown instead of failed
AfterLoopAbortUnknown(k) ==
  IF k.idx < num_participants THEN k
  ELSE IF k.pc = "send_propose" THEN [k EXCEPT !.pc = "collect", !.idx = 0]
  ELSE IF k.pc = "collect" THEN
    [k EXCEPT !.pc = "send_decision", !.idx = 0,
              !.successful = IF k.all_voted THEN @ + 1 ELSE @,
              !.unknown = IF k.all_voted THEN @ ELSE @ + 1,
              !.log = LogAppend(@, Decision(k.all_voted, k.pm))]
  ELSE IF k.pc = "send_decision" THEN
    [k EXCEPT !.pc = "send_result",
              !.log = LogAppend(@, ClientResult(k.all_voted, k.pm))]
  ELSE [k EXCEPT !.pc = "exit_clients", !.idx = 0]

\* faulty variant: a round is given up after its vote wait once running is false
AfterLoopChecksRunning(k) ==
  IF k.idx < num_participants THEN k
  ELSE IF k.pc = "send_propose" THEN [k EXCEPT !.pc = "collect", !.idx = 0]
  ELSE IF k.pc = "collect" THEN
    IF ~running THEN [k EXCEPT !.pc = "final", !.idx = 0]
    ELSE
    [k EXCEPT !.pc = "send_decision", !.idx = 0,
              !.successful = IF k.all_voted THEN @ + 1 ELSE @,
              !.failed = IF k.all_voted THEN @ ELSE @ + 1,
              !.log = LogAppend(@, Decision(k.all_voted, k.pm))]
  ELSE IF k.pc = "send_decision" THEN
    [k EXCEPT !.pc = "send_result",
              !.log = LogAppend(@, ClientResult(k.all_voted, k.pm))]
  ELSE [k EXCEPT !.pc = "exit_clients", !.idx = 0]

\* protocol: what follows a loop over participant_data once it has ended
AfterLoop(k) ==
  IF k.idx < num_participants THEN k
  ELSE IF k.pc = "send_propose" THEN [k EXCEPT !.pc = "collect", !.idx = 0]
  ELSE IF k.pc = "collect" THEN
    [k EXCEPT !.pc = "send_decision", !.idx = 0,
              !.successful = IF k.all_voted THEN @ + 1 ELSE @,
              !.failed = IF k.all_voted THEN @ ELSE @ + 1,
              !.log = LogAppend(@, Decision(k.all_voted, k.pm))]
  ELSE IF k.pc = "send_decision" THEN
    [k EXCEPT !.pc = "send_result",
              !.log = LogAppend(@, ClientResult(k.all_voted, k.pm))]
  ELSE [k EXCEPT !.pc = "exit_clients", !.idx = 0]

\* faulty variant: a dropped send is not retried
BroadcastNoRetry(m) ==
  \E x \in Draws :
    LET p == coord.idx
        res == CoordSend(x, PartAlive(p)) IN
    /\ k2p' = [k2p EXCEPT ![p] = IF res = "ok" THEN Put(@, m) ELSE @]
    /\ coord' = AfterLoop([coord EXCEPT !.idx = @ + 1])

\* faulty variant: a send that reports a drop has delivered the message all the same
BroadcastDropDelivers(m) ==
  \E x \in Draws :
    LET p == coord.idx
        res == CoordSend(x, PartAlive(p)) IN
    /\ k2p' = [k2p EXCEPT ![p] = IF res # "panic" /\ PartAlive(p) THEN Put(@, m) ELSE @]
    /\ coord' = IF res = "dropped" THEN coord
                ELSE AfterLoop([coord EXCEPT !.idx = @ + 1])

\* one send of a loop over participant_data: the message m goes to the
\* participant at idx; a dropped send is retried, a sent or failed one moves on
Broadcast(m) ==
  \E x \in Draws :
    LET p == coord.idx
        res == CoordSend(x, PartAlive(p)) IN
    /\ k2p' = [k2p EXCEPT ![p] = IF res = "ok" THEN Put(@, m) ELSE @]
    /\ coord' = IF res = "dropped" THEN coord
                ELSE AfterLoop([coord EXCEPT !.idx = @ + 1])

\* protocol: the propose is sent to each participant
CoordSendPropose ==
  /\ coord.pc = "send_propose"
  /\ Broadcast(Prepare(coord.pm))
  /\ UNCHANGED <<running, TXID_COUNTER, opts, part,
                 client, c2k, k2c, p2k, interrupted, readVotes, voteWaitFailed>>

\* faulty variant: the wrong vote kind is taken for the abort vote
VoteReadWrongKind(all_voted, value) ==
  IF value.mtype = "ParticipantVoteCommit" THEN FALSE ELSE all_voted

\* protocol: all_voted after a message has been read in the vote loop
VoteRead(all_voted, value) ==
  IF value.mtype = "ParticipantVoteAbort" THEN FALSE ELSE all_voted

\* protocol: recv_timeout(500 ms) on the channel of the participant at idx
\* returns a message; after the last participant the decision is built,
\* counted and logged
CoordRecvVote ==
  /\ coord.pc = "collect"
  /\ Pending(p2k[coord.idx])
  /\ LET p == coord.idx
         value == Front(p2k[p]) IN
       /\ p2k' = [p2k EXCEPT ![p] = Take(@)]
       /\ coord' = AfterLoop([coord EXCEPT !.idx = @ + 1,
                                           !.all_voted = VoteRead(@, value)])
       /\ readVotes' = readVotes \cup {<<coord.pm.txid, p, value>>}
  /\ UNCHANGED <<running, TXID_COUNTER, opts, part,
                 client, c2k, k2c, k2p, interrupted, voteWaitFailed>>

\* faulty variant: a vote wait that ends without a message is not taken as an
\* abort vote
CoordVoteTimeoutIgnored ==
  /\ coord.pc = "collect"
  /\ ~Pending(p2k[coord.idx])
  /\ coord' = AfterLoop([coord EXCEPT !.idx = @ + 1])
  /\ voteWaitFailed' = TRUE
  /\ UNCHANGED <<running, TXID_COUNTER, opts, part,
                 client, c2k, k2c, p2k, k2p, interrupted, readVotes>>

\* protocol: recv_timeout(500 ms) returns Err: nothing arrived in time, or the
\* participant's sender is gone
CoordVoteTimeout ==
  /\ coord.pc = "collect"
  /\ ~Pending(p2k[coord.idx])
  /\ coord' = AfterLoop([coord EXCEPT !.idx = @ + 1, !.all_voted = FALSE])
  /\ voteWaitFailed' = TRUE
  /\ UNCHANGED <<running, TXID_COUNTER, opts, part,
                 client, c2k, k2c, p2k, k2p, interrupted, readVotes>>

\* protocol: the decision is sent to each participant; after the last one the
\* client result is built and logged
CoordSendDecision ==
  /\ coord.pc = "send_decision"
  /\ Broadcast(Decision(coord.all_voted, coord.pm))
  /\ UNCHANGED <<running, TXID_COUNTER, opts, part,
                 client, c2k, k2c, p2k, interrupted, readVotes, voteWaitFailed>>

\* faulty variant: all_voted is not set back to true at the end of a round
EndRoundNoReset(k) ==
  [k EXCEPT !.pc = "loop", !.num_req_handled = @ + 1, !.pm = NoMsg, !.key = 0]

\* protocol: the end of a round
EndRound(k) ==
  [k EXCEPT !.pc = "loop", !.all_voted = TRUE, !.num_req_handled = @ + 1,
            !.pm = NoMsg, !.key = 0]

\* faulty variant: the result is taken as sent without being put on the channel
CoordSendResultLost ==
  /\ coord.pc = "send_result"
  /\ coord' = EndRound(coord)
  /\ UNCHANGED <<running, TXID_COUNTER, opts, part,
                 client, c2k, k2c, p2k, k2p, interrupted, readVotes, voteWaitFailed>>

\* protocol: the result is sent to the client registered as key, retried while
\* it is dropped; then the per-round state is reset
CoordSendResult ==
  /\ coord.pc = "send_result"
  /\ \E x \in Draws :
       LET res == CoordSend(x, ClientAlive(coord.key)) IN
       /\ k2c' = [k2c EXCEPT ![coord.key] =
                    IF res = "ok" THEN Put(@, ClientResult(coord.all_voted, coord.pm)) ELSE @]
       /\ coord' = IF res = "dropped" THEN coord ELSE EndRound(coord)
  /\ UNCHANGED <<running, TXID_COUNTER, opts, part,
                 client, c2k, p2k, k2p, interrupted, readVotes, voteWaitFailed>>

\* faulty variant: the broadcast of CoordinatorExit leaves out the participants
CoordFinalSkipsParticipants ==
  /\ coord.pc = "final"
  /\ coord' = [coord EXCEPT !.pc = IF running THEN "exit_clients" ELSE "store",
                            !.idx = 0]
  /\ UNCHANGED <<running, TXID_COUNTER, opts, part,
                 client, c2k, k2c, p2k, k2p, interrupted, readVotes, voteWaitFailed>>

\* faulty variant: CoordinatorExit is broadcast whatever running holds
CoordFinalAlwaysBroadcasts ==
  /\ coord.pc = "final"
  /\ coord' = [coord EXCEPT !.pc = "exit_participants", !.idx = 0]
  /\ UNCHANGED <<running, TXID_COUNTER, opts, part,
                 client, c2k, k2c, p2k, k2p, interrupted, readVotes, voteWaitFailed>>

\* protocol: after the loop, the second load of running
CoordFinal ==
  /\ coord.pc = "final"
  /\ coord' = [coord EXCEPT !.pc = IF running THEN "exit_participants" ELSE "store",
                            !.idx = 0]
  /\ UNCHANGED <<running, TXID_COUNTER, opts, part,
                 client, c2k, k2c, p2k, k2p, interrupted, readVotes, voteWaitFailed>>

\* protocol: CoordinatorExit is sent to each participant
CoordExitParticipants ==
  /\ coord.pc = "exit_participants"
  /\ Broadcast(Exit)
  /\ UNCHANGED <<running, TXID_COUNTER, opts, part,
                 client, c2k, k2c, p2k, interrupted, readVotes, voteWaitFailed>>

\* protocol: CoordinatorExit is sent to each client
CoordExitClients ==
  /\ coord.pc = "exit_clients"
  /\ \E x \in Draws :
       LET c == coord.idx
           res == CoordSend(x, ClientAlive(c)) IN
       /\ k2c' = [k2c EXCEPT ![c] = IF res = "ok" THEN Put(@, Exit) ELSE @]
       /\ coord' = IF res = "dropped" THEN coord
                   ELSE [coord EXCEPT !.idx = @ + 1,
                                      !.pc = IF coord.idx + 1 < num_clients THEN @ ELSE "store"]
  /\ UNCHANGED <<running, TXID_COUNTER, opts, part,
                 client, c2k, p2k, k2p, interrupted, readVotes, voteWaitFailed>>

\* faulty variant: the coordinator ends without storing false to running
CoordStoreNoClear ==
  /\ coord.pc = "store"
  /\ coord' = [coord EXCEPT !.pc = "done"]
  /\ UNCHANGED <<running, TXID_COUNTER, opts, part,
                 client, c2k, k2c, p2k, k2p, interrupted, readVotes, voteWaitFailed>>

\* protocol: running.store(false), report_status, and the end of the thread
CoordStore ==
  /\ coord.pc = "store"
  /\ running' = FALSE
  /\ coord' = [coord EXCEPT !.pc = "done"]
  /\ UNCHANGED <<TXID_COUNTER, opts, part,
                 client, c2k, k2c, p2k, k2p, interrupted, readVotes, voteWaitFailed>>

\* ---------------------------------------------------------------- specification
Next ==
  \/ Interrupt
  \/ \E c \in Clients : ClientLoop(c)
  \/ \E c \in Clients : ClientSend(c)
  \/ \E c \in Clients : ClientRecvResult(c)
  \/ \E c \in Clients : ClientWaitExit(c)
  \/ \E p \in Participants : PartLoop(p)
  \/ \E p \in Participants : PartRecv(p)
  \/ \E p \in Participants : PartSendVote(p)
  \/ \E p \in Participants : PartRecvDecision(p)
  \/ \E p \in Participants : PartWaitExit(p)
  \/ CoordLoop
  \/ CoordRecvNone
  \/ \E key \in Clients : CoordRecvRequest(key)
  \/ CoordSendPropose
  \/ CoordRecvVote
  \/ CoordVoteTimeout
  \/ CoordSendDecision
  \/ CoordSendResult
  \/ CoordFinal
  \/ CoordExitParticipants
  \/ CoordExitClients
  \/ CoordStore

Spec == Init /\ [][Next]_vars

\* ---------------------------------------------------------------- scheduling
\* the steps of one thread
ClientNext(c) ==
  ClientLoop(c) \/ ClientSend(c) \/ ClientRecvResult(c) \/ ClientWaitExit(c)
PartNext(p) ==
  PartLoop(p) \/ PartRecv(p) \/ PartSendVote(p) \/ PartRecvDecision(p) \/ PartWaitExit(p)
CoordNext ==
  \/ CoordLoop \/ CoordRecvNone \/ \E key \in Clients : CoordRecvRequest(key)
  \/ CoordSendPropose \/ CoordRecvVote \/ CoordVoteTimeout \/ CoordSendDecision
  \/ CoordSendResult \/ CoordFinal \/ CoordExitParticipants \/ CoordExitClients
  \/ CoordStore

\* the names a thread can be spawned under in the runs checked
ThreadNames == 0 .. (MaxLoad - 1)

\* Every spawned thread that can take a step is scheduled in the end; a send
\* that is retried while random() drops it gets through in the end when
\* msg_success_prob > 0 (a dropped send changes nothing); a recv_timeout on an
\* empty channel returns in the end.  The interrupt need never come.
Fairness ==
  /\ \A c \in ThreadNames : WF_vars(c \in Clients /\ ClientNext(c))
  /\ \A p \in ThreadNames : WF_vars(p \in Participants /\ PartNext(p))
  /\ WF_vars(CoordNext)

\* the runs checked for progress: one client, and an operation succeeding with
\* probability one half, so that a participant can take either branch of
\* perform_operation on every message
FairInit ==
  /\ Init
  /\ num_clients = 1
  /\ op_success_prob = Scale \div 2

FairSpec == FairInit /\ [][Next]_vars /\ Fairness

\* ---------------------------------------------------------------- log queries
VoteKinds == {"ParticipantVoteCommit", "ParticipantVoteAbort"}
DecisionKinds == {"CoordinatorCommit", "CoordinatorAbort"}
ResultKinds == {"ClientResultCommit", "ClientResultAbort"}

\* the positions of a log that hold a record of one of the kinds for txid
Where(log, kinds, txid) ==
  {i \in 1 .. Len(log) : log[i].mtype \in kinds /\ log[i].txid = txid}
Has(log, kind, txid) == Where(log, {kind}, txid) # {}
\* the record of message m is in the log
Logged(log, m) == \E i \in 1 .. Len(log) : log[i] = m
\* the txids handed out so far
Txids == 1 .. (TXID_COUNTER - 1)
\* the rounds of the coordinator that have run to their end
Finished(txid) == Has(coord.log, "ClientRequest", txid) /\ coord.pm.txid # txid
Reliable == op_success_prob = One /\ msg_success_prob = One /\ ~interrupted
Total == num_clients * num_requests

\* ---------------------------------------------------------------- claims

\* C1: a txid is decided CoordinatorCommit if and only if every participant
\* cast ParticipantVoteCommit for that txid and the coordinator read that vote
\* during the vote wait of that txid's round.
C1_CommitIffUnanimousForTxid ==
  \A t \in Txids :
    Where(coord.log, DecisionKinds, t) # {} =>
      (Has(coord.log, "CoordinatorCommit", t) <=>
         \A p \in Participants :
           /\ Has(part[p].log, "ParticipantVoteCommit", t)
           /\ \E v \in readVotes :
                /\ v[1] = t /\ v[2] = p
                /\ v[3].mtype = "ParticipantVoteCommit" /\ v[3].txid = t)

\* C2: whenever a participant's log and the coordinator's log both hold a
\* decision for a txid the two are of the same kind, and no two participants
\* log opposite decisions for one txid.
C2_Agreement ==
  \A t \in Txids : \A p \in Participants : \A i \in Where(part[p].log, DecisionKinds, t) :
    /\ \A j \in Where(coord.log, DecisionKinds, t) :
         part[p].log[i].mtype = coord.log[j].mtype
    /\ \A q \in Participants : \A j \in Where(part[q].log, DecisionKinds, t) :
         part[p].log[i].mtype = part[q].log[j].mtype

C2_Witness ==
  /\ num_participants = 2
  /\ \E t \in Txids :
       /\ Where(coord.log, DecisionKinds, t) # {}
       /\ \A p \in Participants : Where(part[p].log, DecisionKinds, t) # {}

\* C3: for every txid a participant has handled a propose for, its log holds
\* one CoordinatorPropose, exactly one vote record and at most one decision
\* record for that txid, so never both CoordinatorCommit and CoordinatorAbort.
C3_ParticipantLogShape ==
  \A p \in Participants : \A t \in Txids :
    Where(part[p].log, {"CoordinatorPropose"} \cup VoteKinds \cup DecisionKinds, t) # {} =>
      /\ Cardinality(Where(part[p].log, {"CoordinatorPropose"}, t)) = 1
      /\ Cardinality(Where(part[p].log, VoteKinds, t)) = 1
      /\ Cardinality(Where(part[p].log, DecisionKinds, t)) <= 1

C3_Witness ==
  \E p \in Participants :
    /\ part[p].pc \in {"recv", "wait", "done"}
    /\ Where(part[p].log, DecisionKinds, 1) # {}
    /\ Where(part[p].log, DecisionKinds, 2) # {}

\* C4: for every txid whose round has run to its end the coordinator's log
\* holds, in this order, one ClientRequest, one CoordinatorPropose, exactly one
\* decision and exactly one client result, and the result is a commit exactly
\* when the decision is.
C4_CoordinatorLogShape ==
  \A t \in Txids : Finished(t) =>
    LET req == Where(coord.log, {"ClientRequest"}, t)
        prop == Where(coord.log, {"CoordinatorPropose"}, t)
        dec == Where(coord.log, DecisionKinds, t)
        res == Where(coord.log, ResultKinds, t) IN
    /\ Cardinality(req) = 1 /\ Cardinality(prop) = 1
    /\ Cardinality(dec) = 1 /\ Cardinality(res) = 1
    /\ \A a \in req : \A b \in prop : \A c \in dec : \A d \in res :
         /\ a < b /\ b < c /\ c < d
         /\ (coord.log[d].mtype = "ClientResultCommit" <=>
               coord.log[c].mtype = "CoordinatorCommit")

C4_Witness ==
  /\ Finished(1) /\ Finished(2)
  /\ Has(coord.log, "CoordinatorCommit", 1)
  /\ Has(coord.log, "CoordinatorAbort", 2)

\* the messages an action puts on channel ch
NewlySent(ch) == {ch.sent'[i] : i \in (Len(ch.sent) + 1) .. Len(ch.sent')}

\* C5: whenever a propose, a decision or a client result is put on a channel
\* by the coordinator, or a vote by a participant, its record is already in
\* the sender's log.
C5_WriteAhead ==
  [][ /\ \A p \in Participants : \A m \in NewlySent(k2p[p]) :
           m.mtype # "CoordinatorExit" => Logged(coord.log, m)
      /\ \A c \in Clients : \A m \in NewlySent(k2c[c]) :
           m.mtype # "CoordinatorExit" => Logged(coord.log, m)
      /\ \A p \in Participants : \A m \in NewlySent(p2k[p]) :
           Logged(part[p].log, m) ]_vars

C5_Witness ==
  /\ \E p \in Participants :
       /\ \E i \in 1 .. Len(p2k[p].sent) : p2k[p].sent[i].mtype \in VoteKinds
       /\ \E i \in 1 .. Len(k2p[p].sent) : k2p[p].sent[i].mtype \in DecisionKinds
  /\ \E c \in Clients :
       \E i \in 1 .. Len(k2c[c].sent) : k2c[c].sent[i].mtype \in ResultKinds

\* C6: at most one txid has its CoordinatorPropose in the coordinator's log
\* and no client result yet, and a propose is sent to a participant only after
\* that participant was sent the decision of every earlier transaction.
C6_OneInFlight ==
  /\ Cardinality({t \in Txids : /\ Has(coord.log, "CoordinatorPropose", t)
                                /\ Where(coord.log, ResultKinds, t) = {}}) <= 1
  /\ \A p \in Participants : \A i \in 1 .. Len(k2p[p].sent) :
       k2p[p].sent[i].mtype = "CoordinatorPropose" =>
         \A b \in Where(coord.log, {"CoordinatorPropose"}, k2p[p].sent[i].txid) :
           \A a \in 1 .. (b - 1) :
             coord.log[a].mtype = "CoordinatorPropose" =>
               \E j \in 1 .. (i - 1) :
                 /\ k2p[p].sent[j].mtype \in DecisionKinds
                 /\ k2p[p].sent[j].txid = coord.log[a].txid

C6_Witness ==
  \E p \in Participants :
    Cardinality({i \in 1 .. Len(k2p[p].sent) :
                   k2p[p].sent[i].mtype = "CoordinatorPropose"}) = 2

\* every decision so far is a commit, and the actors that have ended report it
AllCommitted ==
  /\ \A t \in Txids : ~Has(coord.log, "CoordinatorAbort", t)
  /\ coord.failed = 0
  /\ coord.pc = "done" => coord.successful = Total
  /\ \A p \in Participants : part[p].pc = "done" =>
       part[p].successful = Total /\ part[p].failed = 0 /\ part[p].unknown = 0

\* C7 as stated: with p_op = 1.0, p_msg = 1.0 and no interrupt every
\* transaction is decided CoordinatorCommit, the coordinator ends with
\* successful = num_clients * num_requests and failed = 0, and every
\* participant ends with committed = that total and aborted = unknown = 0.
C7_ReliableRunCommitsAll == Reliable => AllCommitted

\* C7 amended: the same, provided no vote wait of the coordinator has ended
\* without a message (every vote is read within the 500 ms of its round).
C7_ReliableTimelyRunCommitsAll == (Reliable /\ ~voteWaitFailed) => AllCommitted

C7_Witness ==
  /\ Reliable /\ ~voteWaitFailed
  /\ Total = 2
  /\ coord.pc = "done" /\ coord.successful = 2
  /\ \A p \in Participants : part[p].pc = "done" /\ part[p].successful = 2

\* C8: with p_op = 0.0 and p_msg = 1.0 every participant votes
\* ParticipantVoteAbort on every propose, whatever its draw, and so every
\* transaction is decided CoordinatorAbort.
C8_ZeroOpProbAlwaysAborts ==
  (op_success_prob = 0 /\ msg_success_prob = One) =>
    /\ \A p \in Participants : \A t \in Txids :
         ~Has(part[p].log, "ParticipantVoteCommit", t)
    /\ \A t \in Txids : ~Has(coord.log, "CoordinatorCommit", t)

\* the two parts of the statement about the clients' counters
ClientCountsBounded ==
  \A c \in Clients :
    /\ client[c].successful + client[c].failed + client[c].unknown <= client[c].opid
    /\ client[c].opid <= num_requests
ClientsAllSuccessful ==
  \A c \in Clients : client[c].pc \in {"wait", "done"} =>
    /\ client[c].successful = num_requests
    /\ client[c].failed = 0 /\ client[c].unknown = 0

\* C9 as stated: for every client successful + failed + unknown is at most the
\* number of requests it has issued, which is at most num_requests; and with
\* p_op = p_msg = 1.0 and no interrupt every client finishes with
\* successful = num_requests and failed = unknown = 0.
C9_ClientCounts == ClientCountsBounded /\ (Reliable => ClientsAllSuccessful)

\* C9 amended: the bound holds always; the all-successful part holds provided
\* no vote wait of the coordinator has ended without a message.
C9_ClientCountsTimely ==
  ClientCountsBounded /\ ((Reliable /\ ~voteWaitFailed) => ClientsAllSuccessful)

C9_Witness ==
  /\ Reliable /\ ~voteWaitFailed
  /\ num_clients = 2
  /\ \A c \in Clients : client[c].pc = "done" /\ client[c].successful = num_requests

\* C10: the coordinator's successful counter equals the number of distinct
\* txids with a CoordinatorCommit record in the coordinator's log.
C10_SuccessfulCountsCommits ==
  coord.successful = Cardinality({t \in Txids : Has(coord.log, "CoordinatorCommit", t)})

C10_Witness ==
  /\ coord.successful = 1 /\ coord.failed = 1
  /\ Has(coord.log, "CoordinatorCommit", 2)

\* the ClientRequest messages client c has built so far: those it has sent and
\* the one it holds
Issued(c) ==
  {c2k[c].sent[i] : i \in 1 .. Len(c2k[c].sent)} \cup
    (IF client[c].pm.mtype = "ClientRequest" THEN {client[c].pm} ELSE {})
AllIssued == UNION {Issued(c) : c \in Clients}

\* C11: no two ClientRequest messages carry the same txid, the txids handed
\* out are exactly 1, 2, ... in the order the counter is read (every read
\* takes the counter's value and adds one to it), and so each client's
\* requests carry increasing txids.
C11_TxidsUniqueIncreasing ==
  /\ [](/\ \A c \in Clients : Cardinality(Issued(c)) = client[c].opid
        /\ \A m \in AllIssued : \A n \in AllIssued : m # n => m.txid # n.txid
        /\ {m.txid : m \in AllIssued} = Txids
        /\ \A c \in Clients : \A m \in Issued(c) : \A n \in Issued(c) :
             m.opid < n.opid => m.txid < n.txid)
  /\ [][\A c \in Clients : client'[c].opid # client[c].opid =>
          /\ client'[c].pm.txid = TXID_COUNTER
          /\ TXID_COUNTER' = TXID_COUNTER + 1
          /\ \A m \in AllIssued : m.txid < client'[c].pm.txid]_vars

C11_Witness ==
  /\ num_clients = 2
  /\ \A c \in Clients : Len(c2k[c].sent) = 1
  /\ c2k[0].sent[1].txid = 2 /\ c2k[1].sent[1].txid = 1

\* the results for txid that are on the channel to client c, and those of them
\* the client has received
ResultsSent(c, txid) ==
  {i \in 1 .. Len(k2c[c].sent) :
     k2c[c].sent[i].mtype \in ResultKinds /\ k2c[c].sent[i].txid = txid}
Answered(c, txid) == \E i \in ResultsSent(c, txid) : i <= k2c[c].read
\* client c has sent the request txid
Requested(c, txid) ==
  \E i \in 1 .. Len(c2k[c].sent) : c2k[c].sent[i].txid = txid

\* C12: when msg_success_prob > 0 and no shutdown is signalled, every
\* ClientRequest a client has sent is answered in the end by a
\* ClientResultCommit or ClientResultAbort for the same txid, which the client
\* receives; and never more than one result is sent for one request.
\* (Requests, answers and the interrupt are never taken back and the requests
\* are finitely many, so "every request is answered in the end" is "from some
\* point on every request sent has been answered".)
C12_ResponseLiveness ==
  /\ [](\A c \in Clients : \A t \in Txids : Cardinality(ResultsSent(c, t)) <= 1)
  /\ <>[](\/ interrupted
          \/ msg_success_prob = 0
          \/ \A c \in Clients : \A t \in Txids : Requested(c, t) => Answered(c, t))

C12_Witness ==
  /\ ~interrupted /\ num_requests = 2 /\ msg_success_prob = Scale \div 2
  /\ \A c \in Clients : \A t \in 1 .. 2 : Requested(c, t) /\ Answered(c, t)

\* the requests client c has sent whose result it has not received
Unanswered(c) ==
  {i \in 1 .. Len(c2k[c].sent) : ~Answered(c, c2k[c].sent[i].txid)}

\* C13: each client has at most one request that is sent and not answered, and
\* it is the last one it sent: request k+1 is never sent before the result of
\* request k has been received.
C13_OneOutstandingRequest ==
  \A c \in Clients :
    /\ Cardinality(Unanswered(c)) <= 1
    /\ \A i \in Unanswered(c) : i = Len(c2k[c].sent)

C13_Witness ==
  \E c \in Clients :
    /\ Len(c2k[c].sent) = 2 /\ Unanswered(c) = {2}
    /\ client[c].pc = "recv"

\* the CoordinatorExit messages put on a channel, and whether they all carry
\* txid = -1 and opid = -1
ExitsOn(ch) == {i \in 1 .. Len(ch.sent) : ch.sent[i].mtype = "CoordinatorExit"}
ExitsWellFormed(ch) ==
  \A i \in ExitsOn(ch) : ch.sent[i].txid = -1 /\ ch.sent[i].opid = -1
\* the step of the coordinator that ends its broadcast of CoordinatorExit
BroadcastEnds == coord.pc = "exit_clients" /\ coord'.pc = "store"
\* the coordinator stores to running only in its last step, after the broadcast
StoresLast ==
  /\ (coord' # coord /\ coord'.pc # "done") => running' = running
  /\ (coord' # coord /\ coord'.pc = "done") => ~running'

\* C14 as stated: on normal completion the coordinator's broadcast puts one
\* CoordinatorExit with txid = -1 and opid = -1 on the channel of every
\* participant and of every client (no interrupt having come), and the
\* coordinator clears running only after that.
C14_ExitDeliveredToAll ==
  [][ /\ (BroadcastEnds /\ ~interrupted') =>
           /\ \A p \in Participants :
                Cardinality(ExitsOn(k2p'[p])) = 1 /\ ExitsWellFormed(k2p'[p])
           /\ \A c \in Clients :
                Cardinality(ExitsOn(k2c'[c])) = 1 /\ ExitsWellFormed(k2c'[c])
      /\ StoresLast ]_vars

\* C14 amended: the broadcast puts one such CoordinatorExit on the channel of
\* every participant and every client whose thread has not ended, and none on
\* the channel of one that has ended (a thread can end before its turn in the
\* broadcast, once a participant that handled CoordinatorExit, or an
\* interrupt, has cleared running); the coordinator clears running after that.
C14_ExitDeliveredToLiving ==
  [][ /\ BroadcastEnds =>
           /\ \A p \in Participants :
                /\ ExitsWellFormed(k2p'[p])
                /\ \/ Cardinality(ExitsOn(k2p'[p])) = 1
                   \/ ExitsOn(k2p'[p]) = {} /\ ~PartAlive(p)'
           /\ \A c \in Clients :
                /\ ExitsWellFormed(k2c'[c])
                /\ \/ Cardinality(ExitsOn(k2c'[c])) = 1
                   \/ ExitsOn(k2c'[c]) = {} /\ ~ClientAlive(c)'
      /\ StoresLast ]_vars

C14_Witness ==
  /\ coord.pc = "store" /\ running /\ num_participants = 2
  /\ coord.num_req_handled = coord.total_req
  /\ \A p \in Participants : Cardinality(ExitsOn(k2p[p])) = 1
  /\ \A c \in Clients : Cardinality(ExitsOn(k2c[c])) = 1

\* no CoordinatorExit has been put on any channel
NoExitSent ==
  /\ \A p \in Participants : ExitsOn(k2p[p]) = {}
  /\ \A c \in Clients : ExitsOn(k2c[c]) = {}
\* the coordinator has not yet read running after its loop
BeforeFinalRead ==
  coord.pc \in {"loop", "recv_request", "send_propose", "collect",
                "send_decision", "send_result", "final"}

\* C15 as stated: when the coordinator has ended after an interrupt that came
\* before all requests were handled, a CoordinatorExit has been sent to every
\* participant and every client.
C15_EarlyShutdownBroadcastsExit ==
  (coord.pc = "done" /\ interrupted /\ coord.num_req_handled # coord.total_req) =>
    /\ \A p \in Participants : ExitsOn(k2p[p]) # {}
    /\ \A c \in Clients : ExitsOn(k2c[c]) # {}

\* C15 amended: when the interrupt clears running before the coordinator reads
\* running after its loop, no CoordinatorExit is ever sent to anyone; and
\* (with msg_success_prob > 0) the coordinator ends, having stored false.
C15_EarlyShutdownSendsNoExit ==
  /\ []((interrupted /\ BeforeFinalRead) => []NoExitSent)
  /\ (msg_success_prob > 0) => <>[](coord.pc = "done" /\ ~running)

C15_Witness ==
  /\ coord.pc = "done" /\ interrupted /\ NoExitSent
  /\ coord.num_req_handled = 1 /\ coord.total_req = 2
  /\ \A p \in Participants : part[p].pc = "done"
  /\ \A c \in Clients : client[c].pc = "done"

\* every thread has ended: it has returned from its protocol method, or (a
\* client whose send found the channel closed) it has panicked
AllEnded ==
  /\ coord.pc = "done"
  /\ \A p \in Participants : part[p].pc = "done"
  /\ \A c \in Clients : client[c].pc = "done"

\* C16: with msg_success_prob > 0, in every run, interrupted at any point or
\* not, the coordinator, every participant and every client in the end leave
\* their protocol loop and their final spin-wait and end, with running = false:
\* none of them stays in a loop or blocked in a receive for ever.
C16_Termination ==
  (msg_success_prob > 0) => <>[](AllEnded /\ ~running)

C16_Witness ==
  /\ AllEnded /\ ~running /\ interrupted /\ msg_success_prob = Scale \div 2
  /\ coord.num_req_handled = 1 /\ coord.total_req = 2
  /\ \A c \in Clients : ~client[c].panicked /\ client[c].opid = 2

\* participant p has cast its vote for txid and the vote was not put on the
\* channel: the send was dropped
Dropped(p, txid) ==
  /\ Where(part[p].log, VoteKinds, txid) # {}
  /\ ~(part[p].pc = "send_vote" /\ part[p].vote.txid = txid)
  /\ \A i \in 1 .. Len(p2k[p].sent) : p2k[p].sent[i].txid # txid
\* no vote was late: every propose sent has been voted on, and every vote put
\* on a channel was read in the vote wait of its own txid's round
VotesTimely ==
  /\ \A p \in Participants : \A i \in 1 .. Len(k2p[p].sent) :
       k2p[p].sent[i].mtype = "CoordinatorPropose" =>
         /\ Where(part[p].log, VoteKinds, k2p[p].sent[i].txid) # {}
         /\ part[p].pc # "send_vote"
  /\ \A v \in readVotes : v[3].txid = v[1]
  /\ \A p \in Participants : ~Pending(p2k[p])
\* a run with unfailing operations and message drops that has run to its end
LossyRunEnded ==
  /\ op_success_prob = One
  /\ 0 < msg_success_prob /\ msg_success_prob < One
  /\ ~interrupted
  /\ coord.pc = "done"

InRound == coord.pc \in {"send_propose", "collect", "send_decision", "send_result"}

\* C18: the coordinator's state is Active from the moment a request is accepted
\* until the decision has been sent and the client notified, and Quiescent at
\* all other times.
C18_StateFollowsRound ==
  /\ InRound => coord.state = "Active"
  /\ ~InRound => coord.state = "Quiescent"

\* C19: a participant puts at most one vote on its channel for a txid (a
\* dropped vote is not sent again), and a txid for which the vote of some
\* participant was dropped is not decided CoordinatorCommit: its decision is
\* CoordinatorAbort.
C19_DroppedVoteAborts ==
  \A p \in Participants : \A t \in Txids :
    /\ Cardinality({i \in 1 .. Len(p2k[p].sent) : p2k[p].sent[i].txid = t}) <= 1
    /\ Dropped(p, t) => ~Has(coord.log, "CoordinatorCommit", t)

\* C20: whenever a participant receives CoordinatorExit at the top of its loop
\* running is false afterwards, whatever op_success_prob and the draw taken in
\* perform_operation are.
C20_ExitClearsRunning ==
  [][\A p \in Participants :
       (/\ part[p].pc = "recv" /\ Pending(k2p[p])
        /\ Front(k2p[p]).mtype = "CoordinatorExit"
        /\ k2p'[p] = Take(k2p[p])) => ~running']_vars

\* C21: whenever a participant waiting for a decision receives
\* CoordinatorCommit it appends it to its log and increments successful, and
\* whenever it receives CoordinatorAbort it appends it and increments failed,
\* whichever vote it cast itself; unknown changes only on a message that is
\* neither.
C21_DecisionLoggedAndCounted ==
  [][\A p \in Participants :
       (/\ part[p].pc = "wait_decision" /\ Pending(k2p[p])
        /\ k2p'[p] = Take(k2p[p])) =>
         LET reply == Front(k2p[p]) IN
         /\ reply.mtype = "CoordinatorCommit" =>
              /\ part'[p].log = LogAppend(part[p].log, reply)
              /\ part'[p].successful = part[p].successful + 1
         /\ reply.mtype = "CoordinatorAbort" =>
              /\ part'[p].log = LogAppend(part[p].log, reply)
              /\ part'[p].failed = part[p].failed + 1
         /\ reply.mtype \in DecisionKinds => part'[p].unknown = part[p].unknown]_vars

\* C22: every client result put on the channel to a client carries the txid
\* of a ClientRequest that this client has sent, so no client receives the
\* result of another client's request.
C22_ResultToItsClient ==
  \A c \in Clients : \A i \in 1 .. Len(k2c[c].sent) :
    k2c[c].sent[i].mtype \in ResultKinds =>
      /\ Requested(c, k2c[c].sent[i].txid)
      /\ \A d \in Clients \ {c} : ~Requested(d, k2c[c].sent[i].txid)

C22_Witness ==
  /\ num_clients = 2
  /\ \A c \in Clients : \E t \in Txids : Requested(c, t) /\ Answered(c, t)

\* the coordinator is outside the vote collection and what follows it in a round
OutsideDecision == coord.pc \notin {"collect", "send_decision", "send_result"}

\* C23: whenever the coordinator is not collecting votes or sending out a
\* decision, so at the start of every round, all_voted is true; and a txid is
\* decided CoordinatorCommit exactly when in the vote wait of its own round a
\* message that is no ParticipantVoteAbort was read from every participant:
\* an abort of an earlier round has no part in it.
C23_RoundStateReset ==
  /\ OutsideDecision => coord.all_voted
  /\ \A t \in Txids :
       Where(coord.log, DecisionKinds, t) # {} =>
         (Has(coord.log, "CoordinatorCommit", t) <=>
            \A p \in Participants : \E v \in readVotes :
              v[1] = t /\ v[2] = p /\ v[3].mtype # "ParticipantVoteAbort")

C23_Witness ==
  /\ Has(coord.log, "CoordinatorAbort", 1)
  /\ Has(coord.log, "CoordinatorCommit", 2)
  /\ coord.pc = "loop" /\ coord.all_voted /\ num_participants = 1

\* a message of kind mtype for txid has been put on channel ch
SentOn(ch, kinds, txid) ==
  \E i \in 1 .. Len(ch.sent) : ch.sent[i].mtype \in kinds /\ ch.sent[i].txid = txid
\* the coordinator's step is a send to a participant whose thread has ended
SendsToGone ==
  /\ coord.pc \in {"send_propose", "send_decision"}
  /\ ~PartAlive(coord.idx)
  /\ coord' # coord

\* C24: when a participant's thread has ended while the coordinator runs a
\* round, the send to it is given up without a message being put on its
\* channel; a round in which a participant ended without voting is decided
\* CoordinatorAbort; every participant still alive at the end of the round was
\* sent the propose and the decision, and the client that asked, if alive, its
\* result.
C24_GoneParticipantAbortsRound ==
  /\ [][SendsToGone => (k2p' = k2p /\ (coord'.idx = coord.idx + 1 \/ coord'.pc # coord.pc))]_vars
  /\ [](\A t \in Txids : Finished(t) =>
          /\ \A p \in Participants :
               (part[p].pc = "done" /\ Where(part[p].log, VoteKinds, t) = {}) =>
                 Has(coord.log, "CoordinatorAbort", t)
          /\ \A p \in Participants : PartAlive(p) =>
               /\ SentOn(k2p[p], {"CoordinatorPropose"}, t)
               /\ SentOn(k2p[p], DecisionKinds, t)
          /\ \A c \in Clients : (Requested(c, t) /\ ClientAlive(c)) =>
               SentOn(k2c[c], ResultKinds, t))

\* the decision of the current round has been counted, the round not yet ended
DecisionCounted == coord.pc \in {"send_decision", "send_result"}

\* C25: the coordinator's unknown counter is 0 in every reachable state;
\* successful + failed equals num_req_handled whenever no round is between its
\* decision and its end (and is one more in between); so a coordinator that
\* has stopped after handling every request has successful + failed =
\* num_clients * num_requests.
C25_CountersAddUp ==
  /\ coord.unknown = 0
  /\ coord.successful + coord.failed =
       coord.num_req_handled + (IF DecisionCounted THEN 1 ELSE 0)
  /\ (coord.pc = "done" /\ coord.num_req_handled = coord.total_req) =>
       coord.successful + coord.failed = Total
C25_Witness ==
  /\ coord.pc = "done"
  /\ coord.num_req_handled = 2 /\ coord.total_req = 2
  /\ coord.successful = 1 /\ coord.failed = 1 /\ coord.unknown = 0

\* the coordinator has left its request loop
Stopped == coord.pc \in {"final", "exit_participants", "exit_clients", "store", "done"}
\* the coordinator is between the receipt of a request and the end of its round
MidRound == coord.pc \in {"send_propose", "collect", "send_decision", "send_result"}

\* C26: once the coordinator has left its request loop, every txid with a
\* ClientRequest in its log also has its CoordinatorPropose, its decision and
\* its client result in the log; and no step of the coordinator leaves the
\* request loop from inside a round, whether or not an interrupt has come.
C26_NoPartialTransaction ==
  /\ [](Stopped => \A t \in Txids :
          Has(coord.log, "ClientRequest", t) =>
            /\ Has(coord.log, "CoordinatorPropose", t)
            /\ Where(coord.log, DecisionKinds, t) # {}
            /\ Where(coord.log, ResultKinds, t) # {})
  /\ [][(MidRound /\ coord' # coord) =>
          coord'.pc \in {"send_propose", "collect", "send_decision", "send_result", "loop"}]_vars
C26_Witness ==
  /\ interrupted /\ coord.pc = "done"
  /\ coord.num_req_handled = 1 /\ coord.total_req = 2
  /\ Has(coord.log, "ClientRequest", 1)
  /\ Where(coord.log, ResultKinds, 1) # {}

\* the kinds of message the coordinator generates for a request
GeneratedKinds == {"CoordinatorPropose"} \union DecisionKinds \union ResultKinds
\* m has the sender id "coordinator" and the txid and opid of a ClientRequest
CarriesRequest(m) ==
  /\ m.senderid = CoordinatorId
  /\ \E c \in Clients : \E i \in 1 .. Len(c2k[c].sent) :
       /\ c2k[c].sent[i].mtype = "ClientRequest"
       /\ c2k[c].sent[i].txid = m.txid
       /\ c2k[c].sent[i].opid = m.opid
\* vote has the txid and opid of a propose participant p has read
AnswersPropose(p, vote) ==
  \E i \in 1 .. k2p[p].read :
    /\ k2p[p].sent[i].mtype = "CoordinatorPropose"
    /\ k2p[p].sent[i].txid = vote.txid
    /\ k2p[p].sent[i].opid = vote.opid

\* C27: every CoordinatorPropose, decision and client result the coordinator
\* has logged or sent has the sender id "coordinator" and the txid and opid
\* of one ClientRequest; every vote a participant has logged or sent has the
\* txid and opid of a propose that participant has read.
C27_FieldsCarriedThrough ==
  /\ \A i \in 1 .. Len(coord.log) :
       coord.log[i].mtype \in GeneratedKinds => CarriesRequest(coord.log[i])
  /\ \A p \in Participants : \A i \in 1 .. Len(k2p[p].sent) :
       k2p[p].sent[i].mtype \in GeneratedKinds => CarriesRequest(k2p[p].sent[i])
  /\ \A c \in Clients : \A i \in 1 .. Len(k2c[c].sent) :
       k2c[c].sent[i].mtype \in GeneratedKinds => CarriesRequest(k2c[c].sent[i])
  /\ \A p \in Participants :
       /\ \A i \in 1 .. Len(p2k[p].sent) : AnswersPropose(p, p2k[p].sent[i])
       /\ \A i \in 1 .. Len(part[p].log) :
            part[p].log[i].mtype \in VoteKinds => AnswersPropose(p, part[p].log[i])
C27_Witness ==
  /\ \E i \in 1 .. Len(coord.log) :
       /\ coord.log[i].mtype \in ResultKinds
       /\ coord.log[i].txid = 2 /\ coord.log[i].opid = 0
  /\ \E p \in Participants : \E i \in 1 .. Len(p2k[p].sent) :
       p2k[p].sent[i].txid = 2 /\ p2k[p].sent[i].opid = 0
  /\ \E p \in Participants : \E i \in 1 .. Len(k2p[p].sent) :
       /\ k2p[p].sent[i].mtype \in DecisionKinds
       /\ k2p[p].sent[i].txid = 2 /\ k2p[p].sent[i].opid = 0

\* the send loop for the propose of txid to participant p has been left
ProposeDone(p, txid) ==
  /\ Has(coord.log, "CoordinatorPropose", txid)
  /\ (coord.pm.txid # txid \/ coord.pc # "send_propose" \/ coord.idx > p)
\* the send loop for the decision of txid to participant p has been left
DecisionDone(p, txid) ==
  /\ Where(coord.log, DecisionKinds, txid) # {}
  /\ (coord.pm.txid # txid \/ coord.pc # "send_decision" \/ coord.idx > p)

\* C28: for every txid and every participant, the participant's channel never
\* holds more than one CoordinatorPropose and more than one decision of that
\* txid, and every propose precedes the decision; and for a participant whose
\* thread has not ended, once the coordinator has left the send loop of the
\* propose (of the decision) the channel holds exactly one copy of it, at
\* every msg_success_prob.
C28_ExactlyOnceDelivery ==
  \A t \in Txids : \A p \in Participants :
    LET proposes == Where(k2p[p].sent, {"CoordinatorPropose"}, t)
        decisions == Where(k2p[p].sent, DecisionKinds, t) IN
    /\ Cardinality(proposes) <= 1
    /\ Cardinality(decisions) <= 1
    /\ \A i \in proposes : \A j \in decisions : i < j
    /\ (PartAlive(p) /\ ProposeDone(p, t)) => Cardinality(proposes) = 1
    /\ (PartAlive(p) /\ DecisionDone(p, t)) => Cardinality(decisions) = 1
C28_Witness ==
  /\ msg_success_prob = Scale \div 2 /\ num_participants = 2
  /\ Finished(1)
  /\ \A p \in Participants :
       /\ PartAlive(p)
       /\ Cardinality(Where(k2p[p].sent, {"CoordinatorPropose"}, 1)) = 1
       /\ Cardinality(Where(k2p[p].sent, DecisionKinds, 1)) = 1

\* C29: no client is about to execute the send of send_next_operation when the
\* coordinator's thread has ended and its receiving endpoints are dropped, and
\* no client has taken the panic of a failed send.
C29_ClientSendNeverFails ==
  \A c \in Clients :
    /\ client[c].pc = "send" => CoordAlive
    /\ ~client[c].panicked

\* the coordinator is in the round of txid and has yet to send its decision to p
DecisionToCome(p, txid) ==
  /\ coord.pm.txid = txid
  /\ \/ coord.pc \in {"send_propose", "collect"}
     \/ coord.pc = "send_decision" /\ coord.idx <= p

\* C30: no participant has panicked on the receive of a decision; and for a
\* participant that has sent its vote and waits for the decision, either the
\* next message on its channel is a CoordinatorCommit or CoordinatorAbort of
\* the txid it voted on, or its channel is empty and the coordinator is still
\* in that txid's round with the decision to this participant yet to send.
C30_DecisionIsNextMessage ==
  \A p \in Participants :
    /\ ~part[p].panicked
    /\ part[p].pc = "wait_decision" =>
         IF Pending(k2p[p])
           THEN /\ Front(k2p[p]).mtype \in DecisionKinds
                /\ Front(k2p[p]).txid = part[p].vote.txid
           ELSE CoordAlive /\ DecisionToCome(p, part[p].vote.txid)
C30_Witness ==
  /\ interrupted /\ ~CoordAlive
  /\ \E p \in Participants :
       /\ part[p].pc = "wait_decision"
       /\ Pending(k2p[p])
       /\ Front(k2p[p]).mtype \in DecisionKinds
       /\ Front(k2p[p]).txid = part[p].vote.txid

====
